---- MODULE Spec2Model ----
(***************************************************************************)
(* Model of clean_all_lines.py: the batch driver main() and the five-step  *)
(* clean_line procedure it runs for every (dataset, line) of DATASETS.     *)
(*                                                                         *)
(* Python strings are sequences of one-character strings, so that          *)
(* str.replace, str.format, os.path.join and os.path.basename are computed *)
(* character by character.  Frequencies are exact decimals: a catalog      *)
(* value in GHz is <<whole GHz, fraction in units of 1e-7 GHz>>, a value   *)
(* in Hz is <<whole MHz, remaining Hz>> (the products exceed 32 bits).     *)
(* An RMS is an integer number of 1e-5 flux units: round(2000 * RMS, 1)    *)
(* then never falls on a tie, where the binary float would decide.         *)
(***************************************************************************)
EXTENDS Integers, Sequences, FiniteSets, TLC

VARIABLES
    pc,             \* position of the caller: main() or the direct caller
    pos,            \* <<dataset index, line index>> of main's two loops
    args,           \* arguments of the current clean_line invocation
    step,           \* position inside clean_line
    exc,            \* the exception in flight, "none" when there is none
    locals,         \* clean_line's path and name locals (lines 187-205)
    threshold_str,  \* clean_line's local of that name
    calls,          \* external calls made by the current invocation
    fs,             \* files and directories on disk: [path, by]
    runs,           \* every clean_line invocation so far and how it ended
    faults,         \* misbehaviours of the external engines so far
    env             \* how the external engines behave in this run

vars == <<pc, pos, args, step, exc, locals, threshold_str, calls, fs, runs, faults, env>>

\* At most this many misbehaviours of a flaky environment in one run.
MaxFaults == 1

\* At most this many direct invocations of clean_line in SpecCall.
MaxCalls == 2

(***************************************************************************)
(* Python string and path functions                                        *)
(***************************************************************************)
DigitChars == <<"0", "1", "2", "3", "4", "5", "6", "7", "8", "9">>

\* str(n) of a non-negative int
RECURSIVE Str(_)
Str(n) == IF n < 10 THEN <<DigitChars[n + 1]>>
          ELSE Str(n \div 10) \o <<DigitChars[(n % 10) + 1]>>

\* str.replace(old, new) for a one-character old
RECURSIVE Replace(_, _, _)
Replace(s, old, new) ==
    IF s = <<>> THEN <<>>
    ELSE (IF Head(s) = old THEN new ELSE <<Head(s)>>) \o Replace(Tail(s), old, new)

StartsWith(s, p) == Len(s) >= Len(p) /\ SubSeq(s, 1, Len(p)) = p

\* template.format(spw=spw): every replacement field {spw} becomes str(spw)
RECURSIVE Format(_, _)
Format(template, spw) ==
    IF template = <<>> THEN <<>>
    ELSE IF StartsWith(template, <<"{","s","p","w","}">>)
         THEN Str(spw) \o Format(SubSeq(template, 6, Len(template)), spw)
         ELSE <<Head(template)>> \o Format(Tail(template), spw)

\* os.path.join(a, b) on posix
PathJoin(a, b) ==
    IF StartsWith(b, <<"/">>) THEN b
    ELSE IF a = <<>> \/ a[Len(a)] = "/" THEN a \o b
    ELSE a \o <<"/">> \o b

PathJoin3(a, b, c) == PathJoin(PathJoin(a, b), c)

\* os.path.basename(p): what follows the last "/"
Basename(p) ==
    LET slashes == {i \in 1..Len(p) : p[i] = "/"}
    IN  IF slashes = {} THEN p
        ELSE SubSeq(p, (CHOOSE i \in slashes : \A j \in slashes : j <= i) + 1, Len(p))

\* round(x, ndigits) of the exact quotient num/den scaled to an integer:
\* the nearest integer, the even one on a tie (num >= 0, den > 0)
RoundHalfEven(num, den) ==
    LET q == num \div den
        r == num % den
    IN  IF 2 * r < den THEN q
        ELSE IF 2 * r > den THEN q + 1
        ELSE IF q % 2 = 0 THEN q ELSE q + 1

\* repr of a non-negative float with one decimal, given in tenths
FloatStr(tenths) == Str(tenths \div 10) \o <<".">> \o Str(tenths % 10)

(***************************************************************************)
(* Configuration                                                           *)
(***************************************************************************)
RMS_CHANNELS == "0~30"
RMS_MULTIPLIER == 2
MAX_ITERATIONS == 50000

DATASETS == <<
    [name |-> <<"2","0","1","3","_","S","G","2">>,
     vis_template |-> <<"A","A","_","T","a","u","_","2","0","1","3","_","S","G","2",".","s","p","w","{","s","p","w","}",".","s","e","l","f","c","a","l",".","m","s",".","c","o","n","t","s","u","b","_","f","i","t","1">>,
     width |-> "0.3km/s",
     lines |-> <<
        [spw |-> 0, molecule |-> <<"N","2","H","+">>, line_freq |-> <<279, 5117491>>,
         restfreqs |-> << <<279, 5117491>> >>],
        [spw |-> 2, molecule |-> <<"D","C","O","+">>, line_freq |-> <<288, 1438583>>,
         restfreqs |-> << <<288, 1438583>> >>],
        [spw |-> 6, molecule |-> <<"H","2","C","O">>, line_freq |-> <<290, 6234050>>,
         restfreqs |-> << <<290, 6234050>> >>] >>],
    [name |-> <<"2","0","1","3","_","S","G","1">>,
     vis_template |-> <<"A","A","_","T","a","u","_","2","0","1","3","_","S","G","1",".","s","p","w","{","s","p","w","}",".","s","e","l","f","c","a","l",".","m","s",".","c","o","n","t","s","u","b","_","f","i","t","1">>,
     width |-> "0.2km/s",
     lines |-> <<
        [spw |-> 0, molecule |-> <<"H","C","N">>, line_freq |-> <<265, 8864343>>,
         restfreqs |-> << <<265, 8848912>>, <<265, 8861886>>, <<265, 8864339>>,
                          <<265, 8864343>>, <<265, 8864999>>, <<265, 8885221>> >>],
        [spw |-> 1, molecule |-> <<"H","C","O","+">>, line_freq |-> <<267, 5576259>>,
         restfreqs |-> << <<267, 5576259>> >>] >>],
    [name |-> <<"2","0","1","5","_","S","G","1">>,
     vis_template |-> <<"A","A","_","T","a","u","_","2","0","1","5","_","S","G","1",".","s","p","w","{","s","p","w","}",".","s","e","l","f","c","a","l",".","m","s",".","c","o","n","t","s","u","b","_","f","i","t","1">>,
     width |-> "0.2km/s",
     lines |-> <<
        [spw |-> 1, molecule |-> <<"C","N","_","S","P","W","1">>, line_freq |-> <<340, 2477700>>,
         restfreqs |-> << <<340, 2477700>>, <<340, 2485440>>, <<340, 2617734>>,
                          <<340, 2649490>>, <<340, 2791201>> >>],
        [spw |-> 3, molecule |-> <<"C","N","_","S","P","W","3">>, line_freq |-> <<340, 315494>>,
         restfreqs |-> << <<340, 81263>>, <<340, 196255>>, <<340, 315494>>,
                          <<340, 354080>> >>],
        [spw |-> 5, molecule |-> <<"C","1","8","O">>, line_freq |-> <<329, 3305525>>,
         restfreqs |-> << <<329, 3305525>> >>],
        [spw |-> 6, molecule |-> <<"1","3","C","O">>, line_freq |-> <<330, 5879653>>,
         restfreqs |-> << <<330, 5879653>> >>] >>] >>

\* freq * 1e9: a catalog value in GHz as Hz
GHzToHz(freq) == <<freq[1] * 1000 + freq[2] \div 10000, (freq[2] % 10000) * 100>>

(***************************************************************************)
(* clean_line: paths and names (its locals, as functions of its arguments) *)
(***************************************************************************)
dataset_name_short(dataset_config) == Replace(dataset_config.name, "_", <<>>)

\* mutant: the 2015 dataset is not special-cased
contsub_dir_mechanical(dataset_config) ==
    <<"c","o","n","t","s","u","b","_">> \o dataset_name_short(dataset_config)

contsub_dir(dataset_config) ==
    IF dataset_config.name = <<"2","0","1","5","_","S","G","1">>
    THEN <<"c","o","n","t","s","u","b","_","2","0","1","5">>
    ELSE <<"c","o","n","t","s","u","b","_">> \o dataset_name_short(dataset_config)

contsub_path(base_path, dataset_config) ==
    PathJoin(base_path, contsub_dir(dataset_config))

vis_file(base_path, dataset_config, line_config) ==
    PathJoin(contsub_path(base_path, dataset_config),
             Format(dataset_config.vis_template, line_config.spw))

\* mutant: the dataset name finds its way into the output names
output_prefix_per_dataset(a) ==
    PathJoin(a.output_path,
             <<"A","A","T","a","u","_">> \o a.dataset_config.name \o <<"_">> \o a.line_config.molecule
                 \o <<"_","c","o","n","t","s","u","b">>)

output_prefix(a) ==
    PathJoin(a.output_path, <<"A","A","T","a","u","_">> \o a.line_config.molecule \o <<"_","c","o","n","t","s","u","b">>)

clean0_imagename(a) ==
    output_prefix(a) \o <<"_","c","l","e","a","n","0">>

clean0_image(a) == clean0_imagename(a) \o <<".","i","m","a","g","e">>

clean1_imagename(a) ==
    output_prefix(a) \o <<"_","c","l","e","a","n","1">>

clean1_image(a) == clean1_imagename(a) \o <<".","i","m","a","g","e">>

\* mutant: the mask name is derived from the pass-1 name
mask_image_of_clean1(a) == clean1_imagename(a) \o <<".","m","a","s","k",".","i","m","a","g","e">>

mask_image(a) == clean0_imagename(a) \o <<".","m","a","s","k",".","i","m","a","g","e">>

fits_dir(base_path) ==
    PathJoin3(base_path, <<"a","a","t","a","u","-","a","l","m","a","-","a","n","a","l","y","s","i","s">>, <<"f","i","t","s","_","p","r","o","d","u","c","t","s">>)

\* the locals of lines 187-205, set on entry
Locals(a) ==
    [vis_file |-> vis_file(a.base_path, a.dataset_config, a.line_config),
     clean0_imagename |-> clean0_imagename(a),
     clean0_image |-> clean0_image(a),
     clean1_imagename |-> clean1_imagename(a),
     clean1_image |-> clean1_image(a),
     mask_image |-> mask_image(a)]

\* mutant: the FITS name is derived from the image name, .image included
fits_image_name_of_image(base_path, l) ==
    PathJoin(fits_dir(base_path), Basename(l.clean1_image) \o <<".","f","i","t","s">>)

fits_image_name(base_path, l) ==
    PathJoin(fits_dir(base_path), Basename(l.clean1_imagename) \o <<".","f","i","t","s">>)

fits_mask_name(base_path, l) ==
    PathJoin(fits_dir(base_path), Basename(l.clean0_imagename) \o <<".","m","a","s","k",".","f","i","t","s">>)

\* mutant: only the line frequency is forwarded
restfreqs_line_freq_only(line_config) == <<GHzToHz(line_config.line_freq)>>

make_mask_restfreqs(line_config) ==
    [i \in 1..Len(line_config.restfreqs) |-> GHzToHz(line_config.restfreqs[i])]

(***************************************************************************)
(* The external engines and the disk                                       *)
(***************************************************************************)
Paths(disk) == {f.path : f \in disk}

Exists(disk, path) == path \in Paths(disk)

\* a file written (or rewritten) by invocation number by
Write(disk, path, by) == {f \in disk : f.path # path} \cup {[path |-> path, by |-> by]}

\* if not os.path.exists(d): os.makedirs(d)
EnsureDir(disk, d) == IF Exists(disk, d) THEN disk ELSE disk \cup {[path |-> d, by |-> 0]}

\* tclean(imagename=n) writes the cube n.image
TcleanImage(imagename) == imagename \o <<".","i","m","a","g","e">>

\* make_mask(image=x.image) writes the mask x.mask.image alongside the cube
MaskImageOf(image) ==
    IF Len(image) >= 6 /\ SubSeq(image, Len(image) - 5, Len(image)) = <<".","i","m","a","g","e">>
    THEN SubSeq(image, 1, Len(image) - 6) \o <<".","m","a","s","k",".","i","m","a","g","e">>
    ELSE image \o <<".","m","a","s","k",".","i","m","a","g","e">>

\* whether a call of the engine op may return and may raise, in this run:
\* a broken engine (env = op) always raises, a flaky environment misbehaves
\* at most MaxFaults times, a healthy one never
CanMisbehave == env = "flaky" /\ faults < MaxFaults

Outcomes(op) ==
    IF env = op THEN {FALSE}
    ELSE IF CanMisbehave THEN {TRUE, FALSE}
    ELSE {TRUE}

Counted(n) == IF env = "flaky" THEN faults + n ELSE faults

\* what imstat can return: None, an empty dict, a dict without 'rms', a dict
\* whose 'rms' array is empty (no unmasked pixel), or a dict with an RMS
RmsValues == {-3, 0, 1, 3, 300, 499}

StatsNone == [none |-> TRUE, keys |-> {}, rms |-> <<>>]

StatsDict(keys, rms) == [none |-> FALSE, keys |-> keys, rms |-> rms]

StatsEmptyRms == StatsDict({"rms", "npts"}, <<>>)

StatsRegular ==
    {StatsNone, StatsDict({}, <<>>), StatsDict({"npts"}, <<>>)}
        \cup {StatsDict({"rms", "npts"}, <<v>>) : v \in RmsValues}

ImstatReturns ==
    IF env = "imstat" THEN {}
    ELSE StatsRegular \cup (IF CanMisbehave THEN {StatsEmptyRms} ELSE {})

(***************************************************************************)
(* clean_line, step by step                                                *)
(***************************************************************************)
NoArgs ==
    [base_path |-> <<>>, output_path |-> <<>>,
     dataset_config |-> [name |-> <<>>, vis_template |-> <<>>, width |-> "", lines |-> <<>>],
     line_config |-> [spw |-> 0, molecule |-> <<>>, line_freq |-> <<0, 0>>, restfreqs |-> <<>>]]

NoLocals ==
    [vis_file |-> <<>>, clean0_imagename |-> <<>>, clean0_image |-> <<>>,
     clean1_imagename |-> <<>>, clean1_image |-> <<>>, mask_image |-> <<>>]

CurrentRun == Len(runs)

\* mutant: a failure of make_mask is swallowed and the line goes on
StepAfterSwallowed(s, ok) ==
    IF ~ok /\ s # "make_mask" THEN "raised"
    ELSE CASE s = "tclean0"   -> "make_mask"
           [] s = "make_mask" -> "imstat"
           [] s = "imstat"    -> "tclean1"
           [] s = "tclean1"   -> "export1"
           [] s = "export1"   -> "export2"
           [] s = "export2"   -> "returned"

\* the code is straight-line: a call that raises ends the invocation there
StepAfter(s, ok) ==
    IF ~ok THEN "raised"
    ELSE CASE s = "tclean0"   -> "make_mask"
           [] s = "make_mask" -> "imstat"
           [] s = "imstat"    -> "tclean1"
           [] s = "tclean1"   -> "export1"
           [] s = "export1"   -> "export2"
           [] s = "export2"   -> "returned"

\* Step 1: initial dirty clean (niter=0)
Tclean0 ==
    /\ step = "tclean0"
    /\ \E ok \in Outcomes("tclean") :
        /\ calls' = Append(calls,
              [op |-> "tclean",
               vis |-> locals.vis_file,
               imagename |-> locals.clean0_imagename,
               width |-> args.dataset_config.width,
               restfreq |-> <<args.line_config.line_freq, "GHz">>,
               threshold |-> <<"5","m","J","y">>,
               niter |-> 0,
               ok |-> ok])
        /\ fs' = IF ok THEN Write(fs, TcleanImage(locals.clean0_imagename), CurrentRun) ELSE fs
        /\ step' = StepAfter("tclean0", ok)
        /\ exc' = IF ok THEN "none" ELSE "RuntimeError"
        /\ faults' = IF ok THEN faults ELSE Counted(1)
    /\ UNCHANGED <<pc, pos, args, locals, threshold_str, runs, env>>

\* Step 2: create the Keplerian mask
MakeMask ==
    /\ step = "make_mask"
    /\ \E ok \in Outcomes("make_mask") :
        /\ calls' = Append(calls,
              [op |-> "make_mask",
               image |-> locals.clean0_image,
               restfreqs |-> make_mask_restfreqs(args.line_config),
               wrote |-> IF ok THEN MaskImageOf(locals.clean0_image) ELSE <<>>,
               ok |-> ok])
        /\ fs' = IF ok THEN Write(fs, MaskImageOf(locals.clean0_image), CurrentRun) ELSE fs
        /\ step' = StepAfter("make_mask", ok)
        /\ exc' = IF ok THEN "none" ELSE "RuntimeError"
        /\ faults' = IF ok THEN faults ELSE Counted(1)
    /\ UNCHANGED <<pc, pos, args, locals, threshold_str, runs, env>>

\* Step 3: the RMS threshold
Truthy(stats) == ~stats.none /\ stats.keys # {}

\* mutant: >= for >
IsNonNegative(rms_val) == rms_val >= 0

IsPositive(rms_val) == rms_val > 0

\* round(1000. * RMS_MULTIPLIER * rms_val, 1), in tenths of a mJy
threshold_val(rms_val) == RoundHalfEven(1000 * RMS_MULTIPLIER * rms_val * 10, 100000)

\* the if/else of step 3: the exception it raises and the threshold it sets
Step3(stats) ==
    IF Truthy(stats) /\ "rms" \in stats.keys
    THEN IF stats.rms = <<>>
         THEN [exc |-> "IndexError", threshold_str |-> <<>>]
         ELSE IF IsPositive(stats.rms[1])
              THEN [exc |-> "none",
                    threshold_str |-> FloatStr(threshold_val(stats.rms[1])) \o <<"m","J","y">>]
              ELSE [exc |-> "none", threshold_str |-> <<"1","0","m","J","y">>]
    ELSE [exc |-> "none", threshold_str |-> <<"1","0","m","J","y">>]

ImstatCall(ok, result) ==
    [op |-> "imstat", imagename |-> locals.clean0_image, chans |-> RMS_CHANNELS,
     result |-> result, ok |-> ok]

\* what the imstat call does in this run: raise, or return some statistics
ImstatOutcomes ==
    {[ok |-> FALSE, stats |-> StatsNone] : b \in {x \in Outcomes("imstat") : ~x}}
        \cup {[ok |-> TRUE, stats |-> s] : s \in ImstatReturns}

Imstat ==
    /\ step = "imstat"
    /\ \E o \in ImstatOutcomes :
        LET s3 == IF o.ok THEN Step3(o.stats)
                  ELSE [exc |-> "RuntimeError", threshold_str |-> threshold_str]
        IN  /\ calls' = Append(calls, ImstatCall(o.ok, o.stats))
            /\ step' = StepAfter("imstat", s3.exc = "none")
            /\ exc' = s3.exc
            /\ threshold_str' = s3.threshold_str
            /\ faults' = IF ~o.ok \/ o.stats = StatsEmptyRms THEN Counted(1) ELSE faults
    /\ UNCHANGED <<pc, pos, args, locals, fs, runs, env>>

\* Step 4: final clean with the mask
Tclean1 ==
    /\ step = "tclean1"
    /\ \E ok \in Outcomes("tclean") :
        /\ calls' = Append(calls,
              [op |-> "tclean",
               vis |-> locals.vis_file,
               imagename |-> locals.clean1_imagename,
               mask |-> locals.mask_image,
               width |-> args.dataset_config.width,
               restfreq |-> <<args.line_config.line_freq, "GHz">>,
               threshold |-> threshold_str,
               niter |-> MAX_ITERATIONS,
               ok |-> ok])
        /\ fs' = IF ok THEN Write(fs, TcleanImage(locals.clean1_imagename), CurrentRun) ELSE fs
        /\ step' = StepAfter("tclean1", ok)
        /\ exc' = IF ok THEN "none" ELSE "RuntimeError"
        /\ faults' = IF ok THEN faults ELSE Counted(1)
    /\ UNCHANGED <<pc, pos, args, locals, threshold_str, runs, env>>

\* Step 5: export to FITS
overwrite == TRUE

\* exportfits refuses to replace an existing file unless overwrite is set
ExportWrites(disk, fitsimage, ok) == ok /\ (overwrite \/ ~Exists(disk, fitsimage))

ExportCall(imagename, fitsimage, done) ==
    [op |-> "exportfits", imagename |-> imagename, fitsimage |-> fitsimage,
     overwrite |-> overwrite, dropstokes |-> TRUE, ok |-> done]

Export1 ==
    /\ step = "export1"
    /\ \E ok \in Outcomes("exportfits") :
        LET disk == EnsureDir(fs, fits_dir(args.base_path))
            done == ExportWrites(disk, fits_image_name(args.base_path, locals), ok)
        IN  /\ calls' = Append(calls, ExportCall(locals.clean1_image, fits_image_name(args.base_path, locals), done))
            /\ fs' = IF done THEN Write(disk, fits_image_name(args.base_path, locals), CurrentRun) ELSE disk
            /\ step' = StepAfter("export1", done)
            /\ exc' = IF done THEN "none" ELSE "RuntimeError"
            /\ faults' = IF ok THEN faults ELSE Counted(1)
    /\ UNCHANGED <<pc, pos, args, locals, threshold_str, runs, env>>

Export2 ==
    /\ step = "export2"
    /\ \E ok \in Outcomes("exportfits") :
        LET done == ExportWrites(fs, fits_mask_name(args.base_path, locals), ok)
        IN  /\ calls' = Append(calls, ExportCall(locals.mask_image, fits_mask_name(args.base_path, locals), done))
            /\ fs' = IF done THEN Write(fs, fits_mask_name(args.base_path, locals), CurrentRun) ELSE fs
            /\ step' = StepAfter("export2", done)
            /\ exc' = IF done THEN "none" ELSE "RuntimeError"
            /\ faults' = IF ok THEN faults ELSE Counted(1)
    /\ UNCHANGED <<pc, pos, args, locals, threshold_str, runs, env>>

\* what one invocation leaves in runs: its arguments, how it ended and the
\* output paths it handed to the engines (<<>> for a call it never made)
ArgOf(k, field) == IF Len(calls) >= k THEN calls[k][field] ELSE <<>>

RunRecord(a, status) ==
    [name |-> a.dataset_config.name, spw |-> a.line_config.spw,
     molecule |-> a.line_config.molecule,
     base_path |-> a.base_path, output_path |-> a.output_path,
     status |-> status,
     clean0_image |-> ArgOf(2, "image"),
     mask_image |-> ArgOf(4, "mask"),
     clean1_image |-> ArgOf(5, "imagename"),
     fits_image |-> ArgOf(5, "fitsimage"),
     fits_mask |-> ArgOf(6, "fitsimage")]

Invoke(a) ==
    /\ args' = a
    /\ locals' = Locals(a)
    /\ step' = "tclean0"
    /\ exc' = "none"
    /\ calls' = <<>>
    /\ threshold_str' = <<>>
    /\ runs' = Append(runs,
          [name |-> a.dataset_config.name, spw |-> a.line_config.spw,
           molecule |-> a.line_config.molecule,
           base_path |-> a.base_path, output_path |-> a.output_path,
           status |-> "running",
           clean0_image |-> <<>>, mask_image |-> <<>>, clean1_image |-> <<>>,
           fits_image |-> <<>>, fits_mask |-> <<>>])

\* the invocation's frame is gone: its locals with it
Leave(status) ==
    /\ runs' = [runs EXCEPT ![Len(runs)] = RunRecord(args, status)]
    /\ args' = NoArgs
    /\ locals' = NoLocals
    /\ step' = "none"
    /\ exc' = "none"
    /\ calls' = <<>>
    /\ threshold_str' = <<>>

CleanLineStep == Tclean0 \/ MakeMask \/ Imstat \/ Tclean1 \/ Export1 \/ Export2

(***************************************************************************)
(* main                                                                    *)
(***************************************************************************)
main_base_path == <<"/","U","s","e","r","s","/","j","e","a","/","A","A","T","a","u">>

main_output_path == PathJoin3(main_base_path, <<"a","a","t","a","u","-","a","l","m","a","-","a","n","a","l","y","s","i","s">>, <<"c","a","s","a","_","i","m","a","g","e","s">>)

\* the position of the two nested for loops: the first line at or after
\* (di, li), past any dataset without lines
RECURSIVE LoopPos(_, _)
LoopPos(di, li) ==
    IF di > Len(DATASETS) THEN <<di, 1>>
    ELSE IF li > Len(DATASETS[di].lines) THEN LoopPos(di + 1, 1)
    ELSE <<di, li>>

HasLine(p) == p[1] <= Len(DATASETS)

NextPos(p) == LoopPos(p[1], p[2] + 1)

\* except Exception: every failure of a step is an Exception
ExceptionClasses == {"RuntimeError", "IndexError"}

\* mutant: except IndexError
CaughtOnlyIndexError(e) == e = "IndexError"

CaughtByExcept(e) == e \in ExceptionClasses

\* mutant: break, which leaves the inner loop for the next dataset
AfterExceptBreak(p) == LoopPos(p[1] + 1, 1)

\* continue: on to the next line of the same loop
AfterExcept(p) == NextPos(p)

MainStart ==
    /\ pc = "start"
    /\ fs' = EnsureDir(fs, main_output_path)
    /\ pos' = LoopPos(1, 1)
    /\ pc' = "loop"
    /\ UNCHANGED <<args, step, exc, locals, threshold_str, calls, runs, faults, env>>

MainCall ==
    /\ pc = "loop"
    /\ HasLine(pos)
    /\ Invoke([base_path |-> main_base_path, output_path |-> main_output_path,
               dataset_config |-> DATASETS[pos[1]],
               line_config |-> DATASETS[pos[1]].lines[pos[2]]])
    /\ pc' = "main_call"
    /\ UNCHANGED <<pos, fs, faults, env>>

MainReturn ==
    /\ pc = "main_call"
    /\ step = "returned"
    /\ Leave("ok")
    /\ pos' = NextPos(pos)
    /\ pc' = "loop"
    /\ UNCHANGED <<fs, faults, env>>

MainExcept ==
    /\ pc = "main_call"
    /\ step = "raised"
    /\ IF CaughtByExcept(exc)
       THEN /\ Leave("raised")
            /\ pos' = AfterExcept(pos)
            /\ pc' = "loop"
       ELSE /\ pc' = "uncaught"
            /\ UNCHANGED <<pos, args, step, exc, locals, calls, threshold_str, runs>>
    /\ UNCHANGED <<fs, faults, env>>

\* the loops are over: the completion banner
MainSummary ==
    /\ pc = "loop"
    /\ ~HasLine(pos)
    /\ pc' = "done"
    /\ UNCHANGED <<pos, args, step, exc, locals, threshold_str, calls, fs, runs, faults, env>>

\* The run starts with the output directory present or not, and with the
\* engines flaky or one of them broken for the whole run.
Init ==
    /\ pc = "start"
    /\ pos = <<1, 1>>
    /\ args = NoArgs
    /\ locals = NoLocals
    /\ step = "none"
    /\ exc = "none"
    /\ threshold_str = <<>>
    /\ calls = <<>>
    /\ fs \in {{}, {[path |-> main_output_path, by |-> 0]}}
    /\ runs = <<>>
    /\ faults = 0
    /\ env \in {"flaky", "tclean", "make_mask", "imstat", "exportfits"}

Next == MainStart \/ MainCall \/ CleanLineStep \/ MainReturn \/ MainExcept \/ MainSummary

Spec == Init /\ [][Next]_vars

(***************************************************************************)
(* clean_line called directly, with arguments of the caller's choice and   *)
(* healthy engines                                                         *)
(***************************************************************************)
CallBasePaths == {main_base_path, <<"/","d","a","t","a","/","a","a","t","a","u">>}

CallOutputPaths == {main_output_path, <<"/","s","c","r","a","t","c","h","/","o","u","t">>}

OtherDataset ==
    [name |-> <<"2","0","1","7","_","S","G","_","2","_","B">>,
     vis_template |-> <<"A","A","_","T","a","u","_","2","0","1","7",".","s","p","w","{","s","p","w","}",".","m","s",".","c","o","n","t","s","u","b">>,
     width |-> "0.2km/s",
     lines |-> <<
        [spw |-> 12, molecule |-> <<"N","2","H","+">>, line_freq |-> <<279, 5117491>>,
         restfreqs |-> << <<279, 5117491>> >>] >>]

CallDatasets == {DATASETS[1], DATASETS[3], OtherDataset}

DirectCall ==
    /\ pc = "idle"
    /\ Len(runs) < MaxCalls
    /\ \E b \in CallBasePaths, o \in CallOutputPaths, d \in CallDatasets :
          Invoke([base_path |-> b, output_path |-> o,
                  dataset_config |-> d, line_config |-> d.lines[1]])
    /\ pc' = "direct_call"
    /\ UNCHANGED <<pos, fs, faults, env>>

DirectReturn ==
    /\ pc = "direct_call"
    /\ step \in {"returned", "raised"}
    /\ Leave(IF step = "returned" THEN "ok" ELSE "raised")
    /\ pc' = "idle"
    /\ UNCHANGED <<pos, fs, faults, env>>

CallInit ==
    /\ pc = "idle"
    /\ pos = <<1, 1>>
    /\ args = NoArgs
    /\ locals = NoLocals
    /\ step = "none"
    /\ exc = "none"
    /\ threshold_str = <<>>
    /\ calls = <<>>
    /\ fs = {}
    /\ runs = <<>>
    /\ faults = 0
    /\ env = "healthy"

NextCall == DirectCall \/ CleanLineStep \/ DirectReturn

SpecCall == CallInit /\ [][NextCall]_vars

(***************************************************************************)
(* Properties                                                              *)
(***************************************************************************)
\* the catalog in DATASETS order: <<dataset name, line>> of every line
RECURSIVE CatalogFrom(_)
CatalogFrom(d) ==
    IF d > Len(DATASETS) THEN <<>>
    ELSE [i \in 1..Len(DATASETS[d].lines) |->
             [name |-> DATASETS[d].name, line |-> DATASETS[d].lines[i]]]
         \o CatalogFrom(d + 1)

Catalog == CatalogFrom(1)

NumLines == Len(Catalog)

Abs(x) == IF x < 0 THEN -x ELSE x

\* the tenths of a mJy nearest to 2000 * RMS, for an RMS of n * 1e-5 > 0
NearestTenths(n) == CHOOSE t \in 0..n : 2 * Abs(n - 5 * t) < 5

HasRmsValue(stats) == ~stats.none /\ "rms" \in stats.keys /\ stats.rms # <<>>

\* RMS unavailable or non-positive
Degenerate(stats) == ~HasRmsValue(stats) \/ stats.rms[1] <= 0

ExpectedThreshold(stats) ==
    IF Degenerate(stats) THEN <<"1","0","m","J","y">>
    ELSE FloatStr(NearestTenths(stats.rms[1])) \o <<"m","J","y">>

IsFinalTclean(c) == c.op = "tclean" /\ c.niter = MAX_ITERATIONS

\* C1: in main(), a failure raised by a step of clean_line for line N is
\* caught: main goes on to the loop position of line N+1 (the next catalog
\* line, across dataset boundaries), from a loop position with a line the
\* next thing main does is invoke clean_line for that line, and no failure
\* ever leaves main() uncaught.
C1_FailureIsolated ==
    /\ [](pc # "uncaught")
    /\ [][(pc = "main_call" /\ step = "raised") =>
            /\ pc' = "loop"
            /\ runs'[Len(runs)].status = "raised"
            /\ IF Len(runs) < NumLines
               THEN /\ HasLine(pos')
                    /\ DATASETS[pos'[1]].name = Catalog[Len(runs) + 1].name
                    /\ DATASETS[pos'[1]].lines[pos'[2]] = Catalog[Len(runs) + 1].line
               ELSE ~HasLine(pos')]_vars
    /\ [][(pc = "loop" /\ HasLine(pos)) =>
            /\ pc' = "main_call"
            /\ step' = "tclean0"
            /\ args'.dataset_config = DATASETS[pos[1]]
            /\ args'.line_config = DATASETS[pos[1]].lines[pos[2]]]_vars

\* line 3 (the last of 2013_SG2) failed and line 4 (the first of 2013_SG1) runs
C1_Witness ==
    /\ Len(runs) = 4
    /\ runs[3].status = "raised"
    /\ runs[4].name = <<"2","0","1","3","_","S","G","1">>
    /\ step = "tclean0"

\* C2: the threshold passed to the final tclean is round(2000 * RMS, 1) mJy
\* when the RMS imstat returned for the pass-0 cube is > 0 and 10 mJy
\* otherwise; RMS = 0 takes the fallback and RMS = 0.003 gives '6.0mJy'.
C2_Threshold ==
    \A k \in 1..Len(calls) :
        (IsFinalTclean(calls[k]) /\ HasRmsValue(calls[k - 1].result)) =>
            LET rms == calls[k - 1].result.rms[1]
            IN  /\ calls[k - 1].op = "imstat"
                /\ calls[k - 1].imagename = locals.clean0_image
                /\ calls[k].threshold = ExpectedThreshold(calls[k - 1].result)
                /\ rms = 0 => calls[k].threshold = <<"1","0","m","J","y">>
                /\ rms = 300 => calls[k].threshold = <<"6",".","0","m","J","y">>
                /\ rms = 499 => calls[k].threshold = <<"1","0",".","0","m","J","y">>

C2_Witness ==
    /\ Len(calls) >= 4
    /\ calls[3].result.rms = <<300>>
    /\ calls[4].threshold = <<"6",".","0","m","J","y">>

ExpectedContsubDir(name) ==
    IF name = <<"2","0","1","5","_","S","G","1">> THEN <<"c","o","n","t","s","u","b","_","2","0","1","5">>
    ELSE <<"c","o","n","t","s","u","b","_">> \o SelectSeq(name, LAMBDA c : c # "_")

\* C3: the visibility file handed to tclean is base_path / contsub_<name
\* without underscores> / <vis_template filled with spw>, with contsub_2015
\* for the dataset 2015_SG1.
C3_VisPath ==
    \A k \in 1..Len(calls) :
        calls[k].op = "tclean" =>
            calls[k].vis =
                args.base_path \o <<"/">> \o ExpectedContsubDir(args.dataset_config.name)
                    \o <<"/">> \o Format(args.dataset_config.vis_template, args.line_config.spw)

C3_Witness ==
    /\ Len(calls) >= 1
    /\ args.dataset_config.name = <<"2","0","1","7","_","S","G","_","2","_","B">>
    /\ calls[1].vis = <<"/","d","a","t","a","/","a","a","t","a","u","/","c","o","n","t","s","u","b","_","2","0","1","7","S","G","2","B","/","A","A","_","T","a","u","_","2","0","1","7",".","s","p","w","1","2",".","m","s",".","c","o","n","t","s","u","b">>

IsN2HRun ==
    /\ step = "returned"
    /\ args.dataset_config.name = <<"2","0","1","3","_","S","G","2">>
    /\ args.line_config.molecule = <<"N","2","H","+">>
    /\ args.line_config.spw = 0

Exports == SelectSeq(calls, LAMBDA c : c.op = "exportfits")

FitsProducts == <<"/","U","s","e","r","s","/","j","e","a","/","A","A","T","a","u","/","a","a","t","a","u","-","a","l","m","a","-","a","n","a","l","y","s","i","s","/","f","i","t","s","_","p","r","o","d","u","c","t","s","/">>

\* C4, as claimed: the two FITS files of 2013_SG2 / N2H+ are named
\* AATau_N2H+_contsub_clean1.image.fits and
\* AATau_N2H+_contsub_clean0.mask.image.fits.
C4_AsClaimed ==
    IsN2HRun =>
        /\ Len(Exports) = 2
        /\ Exports[1].fitsimage = FitsProducts \o <<"A","A","T","a","u","_","N","2","H","+","_","c","o","n","t","s","u","b","_","c","l","e","a","n","1",".","i","m","a","g","e",".","f","i","t","s">>
        /\ Exports[2].fitsimage = FitsProducts \o <<"A","A","T","a","u","_","N","2","H","+","_","c","o","n","t","s","u","b","_","c","l","e","a","n","0",".","m","a","s","k",".","i","m","a","g","e",".","f","i","t","s">>

\* C4: a successful run of 2013_SG2 / N2H+ (spw 0) issues exactly two FITS
\* exports, of the pass-1 image to AATau_N2H+_contsub_clean1.fits and of the
\* pass-0 mask to AATau_N2H+_contsub_clean0.mask.fits, both in fits_products.
C4_FitsNames ==
    IsN2HRun =>
        /\ Len(Exports) = 2
        /\ Exports[1].imagename =
              <<"/","U","s","e","r","s","/","j","e","a","/","A","A","T","a","u","/","a","a","t","a","u","-","a","l","m","a","-","a","n","a","l","y","s","i","s","/","c","a","s","a","_","i","m","a","g","e","s","/","A","A","T","a","u","_","N","2","H","+","_","c","o","n","t","s","u","b","_","c","l","e","a","n","1",".","i","m","a","g","e">>
        /\ Exports[1].fitsimage = FitsProducts \o <<"A","A","T","a","u","_","N","2","H","+","_","c","o","n","t","s","u","b","_","c","l","e","a","n","1",".","f","i","t","s">>
        /\ Exports[2].imagename =
              <<"/","U","s","e","r","s","/","j","e","a","/","A","A","T","a","u","/","a","a","t","a","u","-","a","l","m","a","-","a","n","a","l","y","s","i","s","/","c","a","s","a","_","i","m","a","g","e","s","/","A","A","T","a","u","_","N","2","H","+","_","c","o","n","t","s","u","b","_","c","l","e","a","n","0",".","m","a","s","k",".","i","m","a","g","e">>
        /\ Exports[2].fitsimage = FitsProducts \o <<"A","A","T","a","u","_","N","2","H","+","_","c","o","n","t","s","u","b","_","c","l","e","a","n","0",".","m","a","s","k",".","f","i","t","s">>

C4_Witness == IsN2HRun /\ Len(Exports) = 2 /\ Exports[2].ok

\* a frequency in Hz, <<MHz, Hz>>, is the catalog value <<GHz, 1e-7 GHz>>
SameFrequency(hz, ghz) ==
    /\ hz[1] \div 1000 = ghz[1]
    /\ (hz[1] % 1000) * 10000 + hz[2] \div 100 = ghz[2]
    /\ hz[2] % 100 = 0
    /\ hz[2] < 1000000

\* C5: make_mask receives as many rest frequencies as the line's catalog
\* entry has, the i-th being the i-th catalog value in Hz.
C5_RestFreqs ==
    \A k \in 1..Len(calls) :
        calls[k].op = "make_mask" =>
            /\ Len(calls[k].restfreqs) = Len(args.line_config.restfreqs)
            /\ \A i \in 1..Len(args.line_config.restfreqs) :
                  SameFrequency(calls[k].restfreqs[i], args.line_config.restfreqs[i])

C5_Witness ==
    /\ Len(calls) >= 2
    /\ args.line_config.molecule = <<"H","C","N">>
    /\ Len(calls[2].restfreqs) = 6
    /\ calls[2].restfreqs[1] = <<265884, 891200>>
    /\ calls[2].restfreqs[6] = <<265888, 522100>>

Finished == {i \in 1..Len(runs) : runs[i].status = "ok"}

SameImages(r, s) ==
    /\ r.clean0_image = s.clean0_image
    /\ r.mask_image = s.mask_image
    /\ r.clean1_image = s.clean1_image

SameFits(r, s) == r.fits_image = s.fits_image /\ r.fits_mask = s.fits_mask

\* C6, as claimed: two invocations that agree on the molecule and on
\* output_path use the same five output paths.
C6_AsClaimed ==
    \A i, j \in Finished :
        (runs[i].molecule = runs[j].molecule /\ runs[i].output_path = runs[j].output_path)
            => (SameImages(runs[i], runs[j]) /\ SameFits(runs[i], runs[j]))

\* C6: the three image paths depend on the molecule and output_path alone,
\* the two FITS paths on the molecule and base_path alone; invocations that
\* agree on all three use the same five paths whatever the dataset and spw,
\* and the later one's exports replace the earlier one's.
C6_OutputNaming ==
    \A i, j \in Finished :
        runs[i].molecule = runs[j].molecule =>
            /\ runs[i].output_path = runs[j].output_path => SameImages(runs[i], runs[j])
            /\ runs[i].base_path = runs[j].base_path =>
                  /\ SameFits(runs[i], runs[j])
                  /\ i < j => \A f \in fs :
                        f.path \in {runs[i].fits_image, runs[i].fits_mask} => f.by >= j

C6_Witness ==
    /\ Finished = {1, 2}
    /\ runs[1].molecule = runs[2].molecule
    /\ runs[1].output_path = runs[2].output_path
    /\ runs[1].base_path = runs[2].base_path
    /\ runs[1].name # runs[2].name
    /\ runs[1].spw # runs[2].spw
    /\ [path |-> runs[1].fits_image, by |-> 2] \in fs

\* C7, as claimed: whenever imstat returns a result whose RMS is unavailable
\* or non-positive, step 3 does not raise and the line goes on to the final
\* tclean with threshold '10mJy'.
C7_FallbackNeverRaises ==
    (Len(calls) = 3 /\ calls[3].op = "imstat" /\ calls[3].ok /\ Degenerate(calls[3].result))
        => (step = "tclean1" /\ exc = "none" /\ threshold_str = <<"1","0","m","J","y">>)

ExpectedOps == <<"tclean", "make_mask", "imstat", "tclean", "exportfits", "exportfits">>

\* C8: the calls of one invocation are, in this order, the dirty tclean,
\* make_mask, imstat, the final tclean and the two exports, each made only
\* after the one before returned; the final tclean gets the mask written for
\* this line's pass-0 cube and the threshold of this line's statistics.
C8_CallOrder ==
    /\ Len(calls) <= 6
    /\ \A k \in 1..Len(calls) :
          /\ calls[k].op = ExpectedOps[k]
          /\ k < Len(calls) => calls[k].ok
    /\ Len(calls) >= 1 =>
          /\ calls[1].niter = 0
          /\ calls[1].imagename =
                args.output_path \o <<"/","A","A","T","a","u","_">> \o args.line_config.molecule
                    \o <<"_","c","o","n","t","s","u","b","_","c","l","e","a","n","0">>
    /\ Len(calls) >= 2 => calls[2].image = TcleanImage(calls[1].imagename)
    /\ Len(calls) >= 3 => calls[3].imagename = TcleanImage(calls[1].imagename)
    /\ Len(calls) >= 4 =>
          /\ IsFinalTclean(calls[4])
          /\ calls[4].vis = calls[1].vis
          /\ calls[4].mask = calls[2].wrote
          /\ calls[4].threshold = ExpectedThreshold(calls[3].result)
    /\ Len(calls) >= 5 => calls[5].imagename = TcleanImage(calls[4].imagename)
    /\ Len(calls) >= 6 => calls[6].imagename = calls[4].mask

\* a later line (after another line ran) got through all six calls
C8_Witness ==
    /\ step = "returned"
    /\ Len(runs) >= 2
    /\ runs[1].status = "ok"
    /\ Len(calls) = 6
    /\ calls[6].ok

CallRaised(c) == ~c.ok \/ (c.op = "imstat" /\ Step3(c.result).exc # "none")

\* C9: a step that raises is the line's last: no later call of that line is
\* made, and neither clean_line nor main removes a file: the raise is followed
\* by main's handler, which leaves the disk as it is, and no step of the
\* program ever removes a path.
C9_NoCleanup ==
    /\ [](\A k \in 1..Len(calls) : CallRaised(calls[k]) => (k = Len(calls) /\ step = "raised"))
    /\ [][step = "raised" => (step' = "none" /\ fs' = fs)]_vars
    /\ [][Paths(fs) \subseteq Paths(fs')]_vars

\* the final tclean of line 2 failed; its dirty image and mask are still there
\* when main is back in its loop
C9_Witness ==
    /\ pc = "loop"
    /\ Len(runs) = 2
    /\ runs[2].status = "raised"
    /\ runs[2].mask_image # <<>>
    /\ runs[2].clean1_image = <<>>
    /\ Exists(fs, runs[2].clean0_image)
    /\ Exists(fs, runs[2].mask_image)

StepRank ==
    CASE step = "tclean0"   -> 9
      [] step = "make_mask" -> 8
      [] step = "imstat"    -> 7
      [] step = "tclean1"   -> 6
      [] step = "export1"   -> 5
      [] step = "export2"   -> 4
      [] OTHER              -> 3

\* the work main still has to do
Measure ==
    CASE pc = "start"     -> 10 * NumLines + 2
      [] pc = "loop"      -> 10 * (NumLines - Len(runs)) + 1
      [] pc = "main_call" -> 10 * (NumLines - Len(runs)) + StepRank
      [] OTHER            -> 0

\* the call the current step is about to make can return or raise
StepCanRun ==
    CASE step \in {"tclean0", "tclean1"}  -> Outcomes("tclean") # {}
      [] step = "make_mask"               -> Outcomes("make_mask") # {}
      [] step = "imstat"                  -> ImstatOutcomes # {}
      [] step \in {"export1", "export2"}  -> Outcomes("exportfits") # {}
      [] OTHER                            -> FALSE

\* main has a next step to take: in its own code, in the handler or return of
\* the current call, or in the step clean_line is at
MainCanStep ==
    /\ pc \in {"start", "loop"} => ENABLED (MainStart \/ MainCall \/ MainSummary)
    /\ (pc = "main_call" /\ step \in {"returned", "raised"}) =>
          ENABLED (MainReturn \/ MainExcept)
    /\ (pc = "main_call" /\ step \notin {"returned", "raised"}) => StepCanRun

\* C10: main invokes clean_line once for each catalog line, in catalog order,
\* and then reaches the completion summary, whichever lines failed: the
\* invocations so far are always the first lines of the catalog, at the
\* summary they are all of them, main is never stuck before the summary and
\* every step brings it closer.
C10_BatchCompletes ==
    /\ [](/\ Len(runs) <= NumLines
          /\ \A i \in 1..Len(runs) :
                /\ runs[i].name = Catalog[i].name
                /\ runs[i].molecule = Catalog[i].line.molecule
                /\ runs[i].spw = Catalog[i].line.spw
          /\ pc = "done" =>
                /\ Len(runs) = NumLines
                /\ \A i \in 1..Len(runs) : runs[i].status \in {"ok", "raised"}
          /\ pc # "done" => MainCanStep
          /\ pc # "uncaught")
    /\ [][Measure' < Measure]_vars

\* the summary is reached with every line failed
C10_Witness ==
    /\ pc = "done"
    /\ Len(runs) = NumLines
    /\ \A i \in 1..Len(runs) : runs[i].status = "raised"

====
